---------------------------- MODULE Spec2Model ----------------------------
(***************************************************************************)
(* A model of src/src/locale.rs (bbqsrc/intl-rs): the Locale facade over a *)
(* language tag, and the thread-local current-locale registry              *)
(* (CURRENT_LOCALE: Rc<RefCell<Locale>>).                                  *)
(*                                                                         *)
(* Strings are sequences of one-character strings, so that splitting,      *)
(* joining and case-folding are computed and not assumed.                  *)
(* Option<T> is a sequence of length 0 (None) or 1 (Some).                 *)
(***************************************************************************)
EXTENDS Integers, Sequences, FiniteSets, TLC

(***************************************************************************)
(* Bounds of the model.                                                    *)
(***************************************************************************)
\* longest generated input string, in subtags
MaxSubtags == 3
\* shared (read) guards a caller may hold on one cell at a time
MaxReaders == 1
\* cells the allocator can hand out
MaxCells == 3
\* times a caller re-parses the base name of a locale
MaxReparse == 2

(***************************************************************************)
(* Option and Result.                                                      *)
(***************************************************************************)
None == <<>>
Some(v) == <<v>>
IsSome(o) == Len(o) = 1
Unwrap(o) == o[1]

Ok(v) == [ok |-> TRUE, v |-> v]
Err(e) == [ok |-> FALSE, e |-> e]

(***************************************************************************)
(* Characters.                                                             *)
(***************************************************************************)
Lowers ==
  << "a","b","c","d","e","f","g","h","i","j","k","l","m",
     "n","o","p","q","r","s","t","u","v","w","x","y","z" >>
Uppers ==
  << "A","B","C","D","E","F","G","H","I","J","K","L","M",
     "N","O","P","Q","R","S","T","U","V","W","X","Y","Z" >>
Digits == {"0","1","2","3","4","5","6","7","8","9"}

IsLower(c) == \E i \in 1..Len(Lowers) : Lowers[i] = c
IsUpper(c) == \E i \in 1..Len(Uppers) : Uppers[i] = c
IsAlpha(c) == IsLower(c) \/ IsUpper(c)
IsDigit(c) == c \in Digits
IsAlnum(c) == IsAlpha(c) \/ IsDigit(c)

to_lower(c) ==
  IF IsUpper(c) THEN Lowers[CHOOSE i \in 1..Len(Uppers) : Uppers[i] = c] ELSE c
to_upper(c) ==
  IF IsLower(c) THEN Uppers[CHOOSE i \in 1..Len(Lowers) : Lowers[i] = c] ELSE c

AllAlpha(s) == \A i \in 1..Len(s) : IsAlpha(s[i])
AllDigit(s) == \A i \in 1..Len(s) : IsDigit(s[i])
AllAlnum(s) == \A i \in 1..Len(s) : IsAlnum(s[i])

LowerCase(s) == [i \in 1..Len(s) |-> to_lower(s[i])]
UpperCase(s) == [i \in 1..Len(s) |-> to_upper(s[i])]
TitleCase(s) == [i \in 1..Len(s) |-> IF i = 1 THEN to_upper(s[i]) ELSE to_lower(s[i])]

(***************************************************************************)
(* str::split on one character, str::replace of one character by another,  *)
(* String::push_str.                                                       *)
(***************************************************************************)
RECURSIVE split(_, _)
split(s, sep) ==
  IF \A i \in 1..Len(s) : s[i] # sep
  THEN << s >>
  ELSE LET i == CHOOSE k \in 1..Len(s) :
                  s[k] = sep /\ \A j \in 1..(k - 1) : s[j] # sep
       IN  << SubSeq(s, 1, i - 1) >> \o split(SubSeq(s, i + 1, Len(s)), sep)

replace(s, from, to) == [i \in 1..Len(s) |-> IF s[i] = from THEN to ELSE s[i]]

push_str(out, s) == out \o s

\* [String]::join
RECURSIVE join(_, _)
join(subs, sep) ==
  IF Len(subs) = 0 THEN <<>>
  ELSE IF Len(subs) = 1 THEN subs[1]
  ELSE subs[1] \o << sep >> \o join(Tail(subs), sep)

(***************************************************************************)
(* LanguageTag (language_tags crate, imported at locale.rs:5).  The        *)
(* fields locale.rs reads are language, script, region and variants.       *)
(***************************************************************************)
EmptyTag ==
  [ language |-> None, script |-> None, region |-> None, variants |-> <<>>,
    extensions |-> <<>>, privateuse |-> <<>> ]

InSeq(x, s) == \E i \in 1..Len(s) : s[i] = x

\* The reserved code of the undetermined language.
Und == << "u", "n", "d" >>

(***************************************************************************)
(* str::parse::<LanguageTag>().  The parser is the language_tags crate,    *)
(* whose code is not among the repository's files: it is modelled from the *)
(* grammar of the specification (sections 3, 4.1 and 6).                   *)
(* stage: 0 start, 1 after language, 2 after script, 3 after region or a   *)
(* variant, 4 inside the extension block of `key`, 5 inside private use.   *)
(***************************************************************************)
ParseStep(sub, first, st, tag) ==
  LET n == Len(sub)
      low == LowerCase(sub)
      go(stage, key, t) == [ok |-> TRUE, st |-> [stage |-> stage, key |-> key], tag |-> t]
  IN
  IF st.stage = 5 THEN
    IF n >= 1 /\ n <= 8 /\ AllAlnum(sub)
    THEN go(5, "", [tag EXCEPT !.privateuse = Append(@, low)])
    ELSE Err("InvalidSubtag")
  ELSE IF n = 1 /\ AllAlnum(sub) THEN
    IF st.stage = 4 /\ tag.extensions[st.key] = <<>> THEN Err("EmptyExtension")
    ELSE IF low[1] = "x" THEN go(5, "", tag)
    ELSE IF low[1] \in DOMAIN tag.extensions THEN Err("DuplicateExtension")
    ELSE go(4, low[1], [tag EXCEPT !.extensions = (low[1] :> <<>>) @@ @])
  ELSE IF st.stage = 4 THEN
    IF n >= 2 /\ n <= 8 /\ AllAlnum(sub)
    THEN go(4, st.key, [tag EXCEPT !.extensions[st.key] = Append(@, low)])
    ELSE Err("InvalidSubtag")
  ELSE IF first /\ n >= 2 /\ n <= 8 /\ AllAlpha(sub) THEN
    go(1, "", [tag EXCEPT !.language = IF low = Und THEN None ELSE Some(low)])
  ELSE IF st.stage <= 1 /\ n = 4 /\ AllAlpha(sub) THEN
    go(2, "", [tag EXCEPT !.script = Some(TitleCase(sub))])
  ELSE IF st.stage <= 2 /\ ((n = 2 /\ AllAlpha(sub)) \/ (n = 3 /\ AllDigit(sub))) THEN
    go(3, "", [tag EXCEPT !.region = Some(UpperCase(sub))])
  ELSE IF st.stage <= 3 /\ AllAlnum(sub)
          /\ ((n = 4 /\ IsDigit(sub[1])) \/ (n >= 5 /\ n <= 8)) THEN
    IF InSeq(low, tag.variants) THEN Err("DuplicateVariant")
    ELSE go(3, "", [tag EXCEPT !.variants = Append(@, low)])
  ELSE Err("InvalidSubtag")

RECURSIVE ParseSubtags(_, _, _, _)
ParseSubtags(subs, i, st, tag) ==
  IF i > Len(subs) THEN
    IF st.stage = 4 /\ tag.extensions[st.key] = <<>> THEN Err("EmptyExtension")
    ELSE IF st.stage = 5 /\ tag.privateuse = <<>> THEN Err("EmptyPrivateUse")
    ELSE Ok(tag)
  ELSE LET r == ParseStep(subs[i], i = 1, st, tag)
       IN  IF r.ok THEN ParseSubtags(subs, i + 1, r.st, r.tag) ELSE r

parse(s) == ParseSubtags(split(s, "-"), 1, [stage |-> 0, key |-> ""], EmptyTag)

(***************************************************************************)
(* impl Locale: the pure part.                                             *)
(***************************************************************************)
\* A panic, as the outcome of a call that does not return.
Panic(msg) == [ok |-> FALSE, e |-> msg]

Locale_new(tag) ==
  LET r == parse(tag) IN IF r.ok THEN Ok([tag |-> r.v]) ELSE r

language(self) == self.tag.language
script(self) == self.tag.script
region(self) == self.tag.region

RECURSIVE push_variants(_, _, _)
push_variants(out, variants, i) ==
  IF i > Len(variants) THEN out
  ELSE push_variants(push_str(push_str(out, << "-" >>), variants[i]), variants, i + 1)

\* A base name that stands in "und" for an absent language.
base_name_und(self) ==
  LET lang == IF self.tag.language = None THEN Und ELSE Unwrap(self.tag.language)
  IN  Some(join(<< lang >> \o self.tag.script \o self.tag.region \o self.tag.variants, "-"))

\* A base name without the separator in front of the region.
base_name_no_region_sep(self) ==
  IF self.tag.language = None THEN None
  ELSE Some(push_variants(
              join(<< Unwrap(self.tag.language) >> \o self.tag.script, "-")
                \o (IF IsSome(self.tag.region) THEN Unwrap(self.tag.region) ELSE <<>>),
              self.tag.variants, 1))

base_name(self) ==
  IF self.tag.language = None THEN None
  ELSE LET out0 == Unwrap(self.tag.language)
           out1 == IF IsSome(script(self))
                   THEN push_str(push_str(out0, << "-" >>), Unwrap(script(self)))
                   ELSE out0
           out2 == IF IsSome(region(self))
                   THEN push_str(push_str(out1, << "-" >>), Unwrap(region(self)))
                   ELSE out1
       IN  Some(push_variants(out2, self.tag.variants, 1))

calendar(self) == Panic("not implemented")
collation(self) == Panic("not implemented")
hour_cycle(self) == Panic("not implemented")
case_first(self) == Panic("not implemented")
numeric(self) == Panic("not implemented")
numbering_system(self) == Panic("not implemented")

Preferences == {"calendar", "collation", "hour_cycle", "case_first", "numeric", "numbering_system"}

\* The call of the preference accessor named `name` on `self`.
CallPreference(name, self) ==
  CASE name = "calendar" -> calendar(self)
    [] name = "collation" -> collation(self)
    [] name = "hour_cycle" -> hour_cycle(self)
    [] name = "case_first" -> case_first(self)
    [] name = "numeric" -> numeric(self)
    [] name = "numbering_system" -> numbering_system(self)

(***************************************************************************)
(* State.                                                                  *)
(***************************************************************************)
VARIABLES
  platform,        \* the environment: the system, and LANG or what the locale API yields
  cell,            \* the heap of RefCell<Locale>: address -> None (free) or Some(Locale)
  readers,         \* address -> number of outstanding Ref guards
  writer,          \* address -> whether a RefMut guard is outstanding
  CURRENT_LOCALE,  \* thread-local slot -> None (not yet initialised) or Some(address)
  handles,         \* thread -> addresses of the Rc handles its callers hold
  snap,            \* the Locale last returned by current() and still held: None or Some([owner, value])
  ev,              \* the last call: who, what, how it ended, what it returned
  inits,           \* thread -> number of times Locale::default() ran to fill a slot
  called,          \* thread -> whether it called current, autoupdating_current or set_current
  lastInvoked,     \* thread -> argument of the most recent set_current invoked (history)
  lastReturned,    \* thread -> argument of the most recent set_current that returned (history)
  pinput,          \* the string given to Locale::new
  ploc,            \* None, or Some(result of the last Locale::new)
  pprev,           \* the locale whose base name was re-parsed last
  pout,            \* the last accessor call on ploc: [op, ret]
  pgen             \* number of re-parses made

regvars == << platform, cell, readers, writer, CURRENT_LOCALE, handles, snap, ev, inits, called >>
histvars == << lastInvoked, lastReturned >>
purevars == << pinput, ploc, pprev, pout, pgen >>
vars == << regvars, histvars, purevars >>

Threads == {"A", "B"}
Cells == 1..MaxCells

\* The subtags of the strings the callers and the environment use.
s_de == << "d", "e" >>
s_DE == << "D", "E" >>
s_Latn == << "L", "a", "t", "n" >>
s_u == << "u" >>
s_t == << "t" >>
s_co == << "c", "o" >>
s_ka == << "k", "a" >>
s_phonebk == << "p", "h", "o", "n", "e", "b", "k" >>
s_shifted == << "s", "h", "i", "f", "t", "e", "d" >>
s_cyrl == << "c", "y", "r", "l" >>
s_1996 == << "1", "9", "9", "6" >>
s_x == << "x" >>
s_latn == << "l", "a", "t", "n" >>

\* "de-u-co-phonebk-ka-shifted", "und-Latn-t-und-cyrl" and
\* "de-Latn-u-co-phonebk-ka-shifted-t-und-cyrl"
TestTag1 == join(<< s_de, s_u, s_co, s_phonebk, s_ka, s_shifted >>, "-")
TestTag2 == join(<< Und, s_Latn, s_t, Und, s_cyrl >>, "-")
TestTag3 ==
  join(<< s_de, s_Latn, s_u, s_co, s_phonebk, s_ka, s_shifted, s_t, Und, s_cyrl >>, "-")

\* The locales the callers pass to set_current or write through a guard.
NewLocales == { Locale_new(TestTag1).v, Locale_new(TestTag2).v }

\* The NUL code unit (0u16).
NUL == "NUL"

\* The environments: unix with LANG unset, "C" or "de_DE.UTF-8"; windows
\* with GetUserDefaultLocaleName failing (0), or writing "de-DE" or the
\* empty name and returning the length written, the terminator included.
PlatformValues ==
  { [os |-> "unix", LANG |-> None],
    [os |-> "unix", LANG |-> Some(<< "C" >>)],
    [os |-> "unix",
     LANG |-> Some(<< "d", "e", "_", "D", "E", ".", "U", "T", "F", "-", "8" >>)],
    [os |-> "windows", ret |-> 0, name |-> <<>>],
    [os |-> "windows", ret |-> 6, name |-> << "d", "e", "-", "D", "E" >>],
    [os |-> "windows", ret |-> 1, name |-> <<>>] }

(***************************************************************************)
(* mod platform (windows, unix) and impl Default for Locale.               *)
(***************************************************************************)
MAX_LOCALE_NAME_LEN == 85

\* OsString::from_wide(&vec).into_string()?, then s.split('\0').next().
from_wide_string(vec) == Ok(split(vec, NUL)[1])

\* vec![0u16; MAX_LOCALE_NAME_LEN] after GetUserDefaultLocaleName wrote the
\* name and its terminator into it.
FilledBuf(name) ==
  [i \in 1..MAX_LOCALE_NAME_LEN |-> IF i <= Len(name) THEN name[i] ELSE NUL]

\* buf.truncate(ret as usize - 1)
truncate(buf, n) == SubSeq(buf, 1, IF n < Len(buf) THEN n ELSE Len(buf))

locale_name_windows(env) ==
  IF env.ret = 0 THEN Err("last_os_error")
  ELSE IF Len(truncate(FilledBuf(env.name), env.ret - 1)) = 0 THEN Ok(<<>>)
  ELSE Ok(from_wide_string(truncate(FilledBuf(env.name), env.ret - 1)).v)

without_dangly_bits(posix_tagish) == split(posix_tagish, ".")[1]

locale_name_unix(env) ==
  IF env.LANG = None THEN Err("NotPresent")
  ELSE Ok(replace(without_dangly_bits(Unwrap(env.LANG)), "_", "-"))

\* platform::locale_name() of the build for the environment's system.
locale_name(env) ==
  IF env.os = "windows" THEN locale_name_windows(env) ELSE locale_name_unix(env)

\* v.parse() inside `if let Ok(v) = platform::locale_name()`.
parse_name(v) == IF v.ok THEN parse(v.v) ELSE v

\* A default() that unwraps the lookup and the parse instead of falling back.
default_of_unwrapping(tag, und) ==
  IF tag.ok THEN Ok([tag |-> tag.v]) ELSE Panic("unwrap on an Err value")

\* Ok(locale), or the panic of the unwrap at line 74.
default_of(tag, und) ==
  IF tag.ok THEN Ok([tag |-> tag.v])
  ELSE IF und.ok THEN Ok([tag |-> und.v])
  ELSE Panic("unwrap on an Err value")

Locale_default(env) == default_of(parse_name(locale_name(env)), parse(Und))

(***************************************************************************)
(* thread_local! CURRENT_LOCALE and LocalKey::with.                        *)
(***************************************************************************)
\* One slot shared by all threads (a plain static).
SharedSlot(t) == "A"

\* The slot a thread's accesses to CURRENT_LOCALE reach: its own.
Slot(t) == t

HasFree == \E a \in Cells : cell[a] = None
FreshCell == CHOOSE a \in Cells : cell[a] = None /\ \A b \in Cells : cell[b] = None => a <= b

\* Rc::new(RefCell::new(d)), d the result of Locale::default().
init_cell(d) ==
  IF d.ok
  THEN [ok |-> TRUE, a |-> FreshCell, cell |-> [cell EXCEPT ![FreshCell] = Some(d.v)], inits |-> 1]
  ELSE [ok |-> FALSE, a |-> 0, cell |-> cell, inits |-> 1]

\* A slot that runs its initialiser at every access.
with_cell_eager(t) == init_cell(Locale_default(platform))

\* with: the cell the closure receives, after the lazy initialisation of
\* the slot on its first access.
with_cell(t) ==
  IF IsSome(CURRENT_LOCALE[Slot(t)])
  THEN [ok |-> TRUE, a |-> Unwrap(CURRENT_LOCALE[Slot(t)]), cell |-> cell, inits |-> 0]
  ELSE init_cell(Locale_default(platform))

\* Whether the access can be modelled: a first access needs a free address.
CanAccess(t) == IsSome(CURRENT_LOCALE[Slot(t)]) \/ HasFree

\* What a call on thread t does: its result, the heap and the thread's slot
\* after it, and the number of times it ran Locale::default().
Effect(t, ret, w, newcell) ==
  [ ret |-> ret,
    cell |-> newcell,
    slot |-> IF w.ok THEN Some(w.a) ELSE CURRENT_LOCALE[Slot(t)],
    inits |-> w.inits ]

InitPanicked(t, w) == Effect(t, Panic("initialiser panicked"), w, w.cell)

(***************************************************************************)
(* RefCell: borrow() panics while a RefMut is outstanding, borrow_mut()    *)
(* panics while any guard is outstanding.                                  *)
(***************************************************************************)
can_borrow(a) == ~writer[a]
can_borrow_mut(a) == ~writer[a] /\ readers[a] = 0

(***************************************************************************)
(* Locale::current, Locale::autoupdating_current, Locale::set_current:     *)
(* each is its closure applied to the cell that `with` hands it.           *)
(***************************************************************************)
\* |locale| Locale::default(): a fresh lookup instead of the stored value.
current_closure_default(t, w) ==
  IF ~w.ok THEN InitPanicked(t, w)
  ELSE IF ~can_borrow(w.a) THEN Effect(t, Panic("already mutably borrowed"), w, w.cell)
  ELSE Effect(t, Ok([tag |-> parse(Und).v]), w, w.cell)

\* |locale| locale.borrow().clone()
current_closure(t, w) ==
  IF ~w.ok THEN InitPanicked(t, w)
  ELSE IF ~can_borrow(w.a) THEN Effect(t, Panic("already mutably borrowed"), w, w.cell)
  ELSE Effect(t, Ok(Unwrap(w.cell[w.a])), w, w.cell)

current(t) == current_closure(t, with_cell(t))

\* |locale| Rc::clone(&locale)
autoupdating_closure(t, w) ==
  IF ~w.ok THEN InitPanicked(t, w) ELSE Effect(t, Ok(w.a), w, w.cell)

autoupdating_current(t) == autoupdating_closure(t, with_cell(t))

LeastFree(c) == CHOOSE a \in Cells : c[a] = None /\ \A b \in Cells : c[b] = None => a <= b

\* Storing a new Rc in the slot instead of writing into the cell.
set_closure_replace_rc(t, w, new_locale) ==
  IF ~w.ok THEN InitPanicked(t, w)
  ELSE IF \A a \in Cells : w.cell[a] # None THEN Effect(t, Panic("out of memory"), w, w.cell)
  ELSE [ ret |-> Ok(<<>>), cell |-> [w.cell EXCEPT ![LeastFree(w.cell)] = Some(new_locale)],
         slot |-> Some(LeastFree(w.cell)), inits |-> w.inits ]

\* Writing past the borrow check.
set_closure_unchecked(t, w, new_locale) ==
  IF ~w.ok THEN InitPanicked(t, w)
  ELSE Effect(t, Ok(<<>>), w, [w.cell EXCEPT ![w.a] = Some(new_locale)])

\* Assigning to a copy of the stored Locale.
set_closure_on_copy(t, w, new_locale) ==
  IF ~w.ok THEN InitPanicked(t, w)
  ELSE IF ~can_borrow_mut(w.a) THEN Effect(t, Panic("already borrowed"), w, w.cell)
  ELSE Effect(t, Ok(<<>>), w, w.cell)

\* |locale| *locale.borrow_mut() = new_locale
set_closure(t, w, new_locale) ==
  IF ~w.ok THEN InitPanicked(t, w)
  ELSE IF ~can_borrow_mut(w.a) THEN Effect(t, Panic("already borrowed"), w, w.cell)
  ELSE Effect(t, Ok(<<>>), w, [w.cell EXCEPT ![w.a] = Some(new_locale)])

set_current(t, new_locale) == set_closure(t, with_cell(t), new_locale)

\* The value a read through handle h yields: Ok(clone) or the borrow panic.
read_handle(h) ==
  IF can_borrow(h) THEN Ok(Unwrap(cell[h])) ELSE Panic("already mutably borrowed")

Event(t, op, ok, val, arg, first) ==
  [ t |-> t, op |-> op, ok |-> ok, val |-> val, arg |-> arg, first |-> first ]

RetVal(ret) == IF ret.ok THEN Some(ret.v) ELSE None

\* The part of a call's effect that every API call has.
Apply(t, e) ==
  /\ cell' = e.cell
  /\ CURRENT_LOCALE' = [CURRENT_LOCALE EXCEPT ![Slot(t)] = e.slot]
  /\ inits' = [inits EXCEPT ![t] = @ + e.inits]
  /\ called' = [called EXCEPT ![t] = TRUE]

(***************************************************************************)
(* Actions of the registry.                                                *)
(***************************************************************************)
CurrentStep(t, e) ==
  /\ Apply(t, e)
  /\ snap' = IF e.ret.ok THEN Some([owner |-> t, value |-> e.ret.v]) ELSE snap
  /\ ev' = Event(t, "current", e.ret.ok, RetVal(e.ret), None, e.inits = 1)

Current(t) ==
  /\ CanAccess(t)
  /\ CurrentStep(t, current(t))
  /\ UNCHANGED << platform, readers, writer, handles >>

AutoupdatingStep(t, e) ==
  /\ Apply(t, e)
  /\ handles' = IF e.ret.ok THEN [handles EXCEPT ![t] = @ \cup {e.ret.v}] ELSE handles
  /\ ev' = Event(t, "autoupdating_current", e.ret.ok, None, None, e.inits = 1)

AutoupdatingCurrent(t) ==
  /\ CanAccess(t)
  /\ AutoupdatingStep(t, autoupdating_current(t))
  /\ UNCHANGED << platform, readers, writer, snap >>

SetCurrentStep(t, e, new_locale) ==
  /\ Apply(t, e)
  /\ ev' = Event(t, "set_current", e.ret.ok, None, Some(new_locale), e.inits = 1)

SetCurrent(t, new_locale) ==
  /\ CanAccess(t)
  /\ SetCurrentStep(t, set_current(t, new_locale), new_locale)
  /\ UNCHANGED << platform, readers, writer, handles, snap >>

HandleReadStep(t, r) == ev' = Event(t, "read", r.ok, RetVal(r), None, FALSE)

\* h.borrow().clone(): a read through a live handle, the guard dropped at once.
HandleRead(t, h) ==
  /\ h \in handles[t]
  /\ HandleReadStep(t, read_handle(h))
  /\ UNCHANGED << platform, cell, readers, writer, CURRENT_LOCALE, handles, snap, inits, called >>

\* let g = h.borrow(): a read guard that stays outstanding.
HandleBorrow(t, h) ==
  /\ h \in handles[t]
  /\ readers[h] < MaxReaders
  /\ readers' = IF can_borrow(h) THEN [readers EXCEPT ![h] = @ + 1] ELSE readers
  /\ ev' = Event(t, "borrow", can_borrow(h), None, None, FALSE)
  /\ UNCHANGED << platform, cell, writer, CURRENT_LOCALE, handles, snap, inits, called >>

\* let g = h.borrow_mut(): a write guard that stays outstanding.
HandleBorrowMut(t, h) ==
  /\ h \in handles[t]
  /\ writer' = IF can_borrow_mut(h) THEN [writer EXCEPT ![h] = TRUE] ELSE writer
  /\ ev' = Event(t, "borrow_mut", can_borrow_mut(h), None, None, FALSE)
  /\ UNCHANGED << platform, cell, readers, CURRENT_LOCALE, handles, snap, inits, called >>

\* *g = new_locale through an outstanding write guard.
GuardWrite(t, h, new_locale) ==
  /\ h \in handles[t]
  /\ writer[h]
  /\ cell' = [cell EXCEPT ![h] = Some(new_locale)]
  /\ ev' = Event(t, "write", TRUE, None, Some(new_locale), FALSE)
  /\ UNCHANGED << platform, readers, writer, CURRENT_LOCALE, handles, snap, inits, called >>

DropRef(t, h) ==
  /\ h \in handles[t]
  /\ readers[h] > 0
  /\ readers' = [readers EXCEPT ![h] = @ - 1]
  /\ ev' = Event(t, "drop_ref", TRUE, None, None, FALSE)
  /\ UNCHANGED << platform, cell, writer, CURRENT_LOCALE, handles, snap, inits, called >>

DropRefMut(t, h) ==
  /\ h \in handles[t]
  /\ writer[h]
  /\ writer' = [writer EXCEPT ![h] = FALSE]
  /\ ev' = Event(t, "drop_ref_mut", TRUE, None, None, FALSE)
  /\ UNCHANGED << platform, cell, readers, CURRENT_LOCALE, handles, snap, inits, called >>

\* The owner of the snapshot drops it.
DropSnapshot(t) ==
  /\ IsSome(snap)
  /\ Unwrap(snap).owner = t
  /\ snap' = None
  /\ ev' = Event(t, "drop_snapshot", TRUE, None, None, FALSE)
  /\ UNCHANGED << platform, cell, readers, writer, CURRENT_LOCALE, handles, inits, called >>

NoEvent == Event("-", "none", TRUE, None, None, FALSE)

RegStart ==
  /\ cell = [a \in Cells |-> None]
  /\ readers = [a \in Cells |-> 0]
  /\ writer = [a \in Cells |-> FALSE]
  /\ CURRENT_LOCALE = [t \in Threads |-> None]
  /\ handles = [t \in Threads |-> {}]
  /\ snap = None
  /\ ev = NoEvent
  /\ inits = [t \in Threads |-> 0]
  /\ called = [t \in Threads |-> FALSE]

HistStart ==
  /\ lastInvoked = [t \in Threads |-> None]
  /\ lastReturned = [t \in Threads |-> None]

PureIdle ==
  /\ pinput = <<>>
  /\ ploc = None
  /\ pprev = None
  /\ pout = [op |-> "none", ret |-> None]
  /\ pgen = 0

Init == platform \in PlatformValues /\ RegStart /\ HistStart /\ PureIdle

\* The history variables and the scratch locale stay as they are.
Rest == UNCHANGED << histvars, purevars >>

Next ==
  \E t \in Threads :
    \/ Current(t) /\ Rest
    \/ AutoupdatingCurrent(t) /\ Rest
    \/ \E l \in NewLocales : SetCurrent(t, l) /\ Rest
    \/ \E h \in Cells : HandleRead(t, h) /\ Rest
    \/ \E h \in Cells : HandleBorrow(t, h) /\ Rest
    \/ \E h \in Cells : HandleBorrowMut(t, h) /\ Rest
    \/ \E h \in Cells, l \in NewLocales : GuardWrite(t, h, l) /\ Rest
    \/ \E h \in Cells : DropRef(t, h) /\ Rest
    \/ \E h \in Cells : DropRefMut(t, h) /\ Rest
    \/ DropSnapshot(t) /\ Rest

Spec == Init /\ [][Next]_vars

(***************************************************************************)
(* The registry with the history of set_current calls recorded, for the    *)
(* interleavings of current(), reads through live handles and              *)
(* set_current() (no write through a guard).                               *)
(***************************************************************************)
Untracked == UNCHANGED << histvars, purevars >>

\* Recorded after a set_current(l) on thread t: ev' tells how it ended.
Tracked(t, l) ==
  /\ lastInvoked' = [lastInvoked EXCEPT ![t] = Some(l)]
  /\ lastReturned' = IF ev'.ok THEN [lastReturned EXCEPT ![t] = Some(l)] ELSE lastReturned
  /\ UNCHANGED purevars

\* The calls the history is recorded for are those of one thread; what the
\* threads do to each other is checked under Spec.
HistThreads == {"A"}

HistNext ==
  \E t \in HistThreads :
    \/ Current(t) /\ Untracked
    \/ AutoupdatingCurrent(t) /\ Untracked
    \/ \E l \in NewLocales : SetCurrent(t, l) /\ Tracked(t, l)
    \/ \E h \in Cells : HandleRead(t, h) /\ Untracked
    \/ \E h \in Cells : HandleBorrow(t, h) /\ Untracked
    \/ \E h \in Cells : HandleBorrowMut(t, h) /\ Untracked
    \/ \E h \in Cells : DropRef(t, h) /\ Untracked
    \/ \E h \in Cells : DropRefMut(t, h) /\ Untracked
    \/ DropSnapshot(t) /\ Untracked

HistSpec == Init /\ [][HistNext]_vars

(***************************************************************************)
(* The pure part: a caller builds a locale from a string, calls its        *)
(* accessors, and re-parses its base name.                                 *)
(***************************************************************************)
Pool == { s_de, s_DE, Und, s_latn, s_1996, s_u, s_co, s_x }

\* "DE-LATN-de", "en-1996-1996"-like duplicate variant, a repeated singleton,
\* and a tag with all four base fields.
Seeds ==
  { TestTag1, TestTag2, TestTag3,
    join(<< s_DE, << "L", "A", "T", "N" >>, s_de >>, "-"),
    join(<< s_de, s_1996, s_1996 >>, "-"),
    join(<< s_de, s_u, s_co, s_phonebk, s_u, s_ka, s_shifted >>, "-"),
    join(<< s_de, s_Latn, s_DE, s_1996, s_shifted >>, "-"),
    join(<< Und, s_Latn, s_DE, s_1996 >>, "-"),
    join(<< s_x, s_de >>, "-") }

Inputs ==
  Seeds \cup { <<>> }
    \cup { join(q, "-") : q \in UNION { [1..n -> Pool] : n \in 1..MaxSubtags } }

PureInit ==
  /\ platform = [os |-> "unix", LANG |-> None] /\ RegStart /\ HistStart
  /\ pinput \in Inputs
  /\ ploc = None
  /\ pprev = None
  /\ pout = [op |-> "none", ret |-> None]
  /\ pgen = 0

RegIdle == UNCHANGED << regvars, histvars >>

\* let loc = Locale::new(pinput)
PNew ==
  /\ ploc = None
  /\ ploc' = Some(Locale_new(pinput))
  /\ UNCHANGED << pinput, pprev, pout, pgen >>
  /\ RegIdle

HasLocale == IsSome(ploc) /\ Unwrap(ploc).ok
TheLocale == Unwrap(ploc).v

\* loc.base_name()
PBaseName ==
  /\ HasLocale
  /\ pout' = [op |-> "base_name", ret |-> base_name(TheLocale)]
  /\ UNCHANGED << pinput, ploc, pprev, pgen >>
  /\ RegIdle

\* loc.calendar(), loc.collation(), ...
PPreference(name) ==
  /\ HasLocale
  /\ pout' = [op |-> name, ret |-> CallPreference(name, TheLocale)]
  /\ UNCHANGED << pinput, ploc, pprev, pgen >>
  /\ RegIdle

\* Locale::new(loc.base_name().unwrap())
reparse(name) ==
  IF IsSome(name) THEN Locale_new(Unwrap(name)) ELSE Panic("unwrap on a None value")

PReparse ==
  /\ HasLocale
  /\ pout.op = "base_name"
  /\ pgen < MaxReparse
  /\ pprev' = Some(TheLocale)
  /\ ploc' = Some(reparse(pout.ret))
  /\ pout' = [op |-> "none", ret |-> None]
  /\ pgen' = pgen + 1
  /\ UNCHANGED pinput
  /\ RegIdle

PureNext ==
  \/ PNew
  \/ PBaseName
  \/ \E name \in Preferences : PPreference(name)
  \/ PReparse

PureSpec == PureInit /\ [][PureNext]_vars

(***************************************************************************)
(* Properties.                                                             *)
(***************************************************************************)
\* The address of thread t's cell, once its slot is initialised.
CellOf(t) == Unwrap(CURRENT_LOCALE[Slot(t)])
Initialised(t) == IsSome(CURRENT_LOCALE[Slot(t)])
Stored(t) == Unwrap(cell[CellOf(t)])

\* Locale::default() in each environment.
DefaultFor == [e \in PlatformValues |-> Locale_default(e)]

\* What current() returns on thread t, were it called now.
WouldReturn(t) ==
  IF Initialised(t) THEN read_handle(CellOf(t)) ELSE DefaultFor[platform]

\* C1. Live-handle propagation: when set_current(L) returns on a thread,
\* a read through every handle the thread already holds yields exactly L,
\* with no handle re-fetched; and every handle a thread holds is the cell of
\* the thread's own slot (all handles alias one cell).
C1_LiveHandlePropagation ==
  [][ /\ \A t \in Threads :
           (ev'.op = "set_current" /\ ev'.t = t /\ ev'.ok) =>
             /\ handles' = handles
             /\ \A h \in handles[t] : read_handle(h)' = Ok(Unwrap(ev'.arg))
      /\ \A t \in Threads : \A h \in handles'[t] : CURRENT_LOCALE'[Slot(t)] = Some(h)
    ]_vars

\* A set_current that was not the thread's first call returned, and the
\* handle obtained before it reads the new locale.
C1_Witness ==
  \E t \in Threads :
    /\ ev.op = "set_current" /\ ev.t = t /\ ev.ok /\ ~ev.first
    /\ handles[t] # {}
    /\ \A h \in handles[t] : read_handle(h) = Ok(Unwrap(ev.arg))
    /\ Unwrap(ev.arg) # DefaultFor[platform].v

\* C2. Snapshot decoupling: the Locale current() returns is the one stored
\* in the thread's cell at the call (the default, when the call initialises
\* the cell); no later call other than the next current() or the drop of
\* the snapshot changes it; dropping it changes no stored Locale.
C2_SnapshotDecoupling ==
  [][ /\ \A t \in Threads :
           (ev'.op = "current" /\ ev'.t = t /\ ev'.ok) =>
             /\ ev'.val = IF Initialised(t) THEN Some(Stored(t))
                          ELSE Some(DefaultFor[platform].v)
             /\ snap' = Some([owner |-> t, value |-> Unwrap(ev'.val)])
             /\ \A a \in Cells : cell[a] # None => cell'[a] = cell[a]
      /\ (ev'.op \notin {"current", "drop_snapshot"}) => snap' = snap
      /\ (ev'.op = "drop_snapshot") => (cell' = cell /\ CURRENT_LOCALE' = CURRENT_LOCALE)
    ]_vars

\* A snapshot is held while a set_current of its owner has stored another
\* Locale.
C2_Witness ==
  /\ IsSome(snap)
  /\ ev.op = "set_current" /\ ev.ok /\ ev.t = Unwrap(snap).owner
  /\ Stored(ev.t) = Unwrap(ev.arg)
  /\ Unwrap(snap).value # Stored(ev.t)

\* Whether the platform lookup fails or yields a string that does not parse.
LookupFails == ~parse_name(locale_name(platform)).ok

BaseSubtags(tag) == tag.language \o tag.script \o tag.region \o tag.variants

\* C5. base_name(): None when the language is absent; otherwise Some of the
\* language, the script if present, the region if present and the variants
\* in order, joined with '-', and nothing of the extensions or private use.
C5_BaseName ==
  (pout.op = "base_name") =>
    IF TheLocale.tag.language = None
    THEN pout.ret = None
    ELSE /\ pout.ret = Some(join(BaseSubtags(TheLocale.tag), "-"))
         /\ split(Unwrap(pout.ret), "-") = BaseSubtags(TheLocale.tag)

\* base_name() was called on a locale with a script and an extension.
C5_Witness ==
  /\ pout.op = "base_name"
  /\ IsSome(pout.ret)
  /\ IsSome(TheLocale.tag.script)
  /\ DOMAIN TheLocale.tag.extensions # {}

\* The key of a preference accessor in the `u` extension.
KeyOf(name) ==
  CASE name = "calendar" -> << "c", "a" >>
    [] name = "collation" -> << "c", "o" >>
    [] name = "hour_cycle" -> << "h", "c" >>
    [] name = "case_first" -> << "k", "f" >>
    [] name = "numeric" -> << "k", "n" >>
    [] name = "numbering_system" -> << "n", "u" >>

RECURSIVE ValueRun(_, _)
ValueRun(subs, i) ==
  IF i > Len(subs) \/ Len(subs[i]) = 2 THEN <<>>
  ELSE << subs[i] >> \o ValueRun(subs, i + 1)

\* The value subtags that follow `key` in the `u` extension, joined with
\* '-'; None when the key or the extension is absent.
Keyword(tag, key) ==
  IF "u" \notin DOMAIN tag.extensions THEN None
  ELSE IF ~InSeq(key, tag.extensions["u"]) THEN None
  ELSE Some(join(ValueRun(tag.extensions["u"],
                          1 + CHOOSE i \in 1..Len(tag.extensions["u"]) :
                                tag.extensions["u"][i] = key), "-"))

\* C6. Preference accessors: each of the six returns normally; it returns
\* the value of its key in the `u` extension when the key is present.
C6_PreferenceAccessors ==
  (pout.op \in Preferences) =>
    /\ pout.ret.ok
    /\ IsSome(Keyword(TheLocale.tag, KeyOf(pout.op))) =>
         pout.ret.v = Unwrap(Keyword(TheLocale.tag, KeyOf(pout.op)))

\* Whether s parses and holds language, script, region and variant
\* subtags only.
BaseOnly(r) == r.ok /\ DOMAIN r.v.tag.extensions = {} /\ r.v.tag.privateuse = <<>>

SameBase(a, b) ==
  /\ a.tag.language = b.tag.language
  /\ a.tag.script = b.tag.script
  /\ a.tag.region = b.tag.region
  /\ a.tag.variants = b.tag.variants

\* C7 as stated. Round trip: for every s of base subtags only,
\* Locale::new(base_name()) succeeds with the same language, script, region
\* and variants, and so again the second time.
C7_RoundTrip ==
  (pgen >= 1 /\ BaseOnly(Locale_new(pinput))) =>
    /\ Unwrap(ploc).ok
    /\ SameBase(Unwrap(ploc).v, Unwrap(pprev))

\* C7, amended. The same for every such s whose language is present.
C7_RoundTripWithLanguage ==
  (pgen >= 1 /\ BaseOnly(Locale_new(pinput))
     /\ Locale_new(pinput).v.tag.language # None) =>
    /\ Unwrap(ploc).ok
    /\ SameBase(Unwrap(ploc).v, Unwrap(pprev))
    /\ SameBase(Unwrap(ploc).v, Locale_new(pinput).v)

\* The base name of a locale with a script, a region and a variant was
\* re-parsed twice.
C7_Witness ==
  /\ pgen = 2
  /\ BaseOnly(Locale_new(pinput))
  /\ Unwrap(ploc).ok
  /\ IsSome(TheLocale.tag.script) /\ IsSome(TheLocale.tag.region)
  /\ TheLocale.tag.variants # <<>>

\* The Locale a read finds when the most recent set_current recorded in
\* `last` took effect: its argument, or the initial value when there is none.
Expected(last) == IF last = None THEN Some(DefaultFor[platform].v) ELSE last

\* C8 as stated. Every read (current() or a read through a live handle)
\* returns the argument of the most recent set_current invoked on the
\* thread, or the initial value.
C8_ReadsMostRecentInvoked ==
  (ev.op \in {"current", "read"} /\ ev.ok) => ev.val = Expected(lastInvoked[ev.t])

\* C8, amended. Every read returns the argument of the most recent
\* set_current that returned on the thread, or the initial value.
C8_ReadsMostRecentReturned ==
  (ev.op \in {"current", "read"} /\ ev.ok) => ev.val = Expected(lastReturned[ev.t])

\* A read through a live handle after a set_current that returned and a
\* later one that did not.
C8_Witness ==
  /\ ev.op = "read" /\ ev.ok
  /\ lastReturned[ev.t] # None
  /\ lastInvoked[ev.t] # lastReturned[ev.t]

\* C9. Thread independence: a set_current (or a write through a guard) on
\* one thread changes neither what current() returns on another thread nor
\* what a handle of the other thread reads nor the handles it holds; and no
\* handle of a thread is the cell of another thread's slot or one of its
\* handles.
C9_ThreadIndependence ==
  [][ \A a \in Threads : \A b \in Threads \ {a} :
        /\ (ev'.t = a /\ ev'.op \in {"set_current", "write"}) =>
             /\ WouldReturn(b)' = WouldReturn(b)
             /\ handles'[b] = handles[b]
             /\ \A h \in handles[b] : read_handle(h)' = read_handle(h)
        /\ \A h \in handles'[a] :
             h \notin handles'[b] /\ CURRENT_LOCALE'[Slot(b)] # Some(h)
    ]_vars

\* Both threads hold a handle, a set_current returned on one of them, and
\* the two cells hold different Locales.
C9_Witness ==
  /\ \A t \in Threads : handles[t] # {}
  /\ ev.op = "set_current" /\ ev.ok
  /\ \E b \in Threads \ {ev.t} : Stored(b) # Stored(ev.t)

\* Whether a guard obtained from a live handle is outstanding on the cell
\* of thread t.
ReadGuard(t) == Initialised(t) /\ readers[CellOf(t)] > 0
WriteGuard(t) == Initialised(t) /\ writer[CellOf(t)]

\* C10. Borrow conflict: set_current called while a read or write guard is
\* outstanding on the thread's cell does not return and leaves the stored
\* Locale as it is; current() called while a write guard is outstanding
\* does not return a value; with no guard outstanding both return.
C10_BorrowConflict ==
  [][ \A t \in Threads :
        /\ (ev'.op = "set_current" /\ ev'.t = t /\ (ReadGuard(t) \/ WriteGuard(t))) =>
             (~ev'.ok /\ cell' = cell)
        /\ (ev'.op = "current" /\ ev'.t = t /\ WriteGuard(t)) =>
             (~ev'.ok /\ ev'.val = None /\ snap' = snap)
        /\ (ev'.op = "set_current" /\ ev'.t = t /\ ~ReadGuard(t) /\ ~WriteGuard(t)) =>
             (ev'.ok /\ cell'[Unwrap(CURRENT_LOCALE'[Slot(t)])] = ev'.arg)
        /\ (ev'.op = "current" /\ ev'.t = t /\ ~WriteGuard(t)) => ev'.ok
    ]_vars

\* A set_current did not return while a read guard was outstanding, and the
\* cell still holds what it held.
C10_Witness ==
  /\ ev.op = "set_current" /\ ~ev.ok
  /\ ReadGuard(ev.t)
  /\ Stored(ev.t) # Unwrap(ev.arg)

=============================================================================
